---- MODULE Spec2Model ----
(***************************************************************************)
(* Model of transport/src/web.rs: the browser (wasm) side of the           *)
(* tonic-ws-transport crate.  `connect` creates a WebSocket, awaits the    *)
(* WebConnection future and splits the resulting WebClient into a          *)
(* WebClientSink and a WebClientStream that share one Arc<Handlers>.       *)
(*                                                                         *)
(* The host (the browser event loop) is single threaded: it fires the      *)
(* open / error / close / message events by invoking whatever closure is   *)
(* installed in the matching slot of the WebSocket.  The executor polls    *)
(* the futures and the owner of a value may drop it at any time.           *)
(***************************************************************************)
EXTENDS Integers, Sequences, FiniteSets, TLC

\* ---- bounds of the model ------------------------------------------------
MaxPolls == 3      \* polls of WebConnection that find the socket CONNECTING
MaxMsgs  == 3      \* message events the host delivers
MaxLen   == 1      \* longest binary payload of one message event
MaxByte  == 1      \* byte values used in payloads: 1..MaxByte
MaxSends == 2      \* sends the sink accepts

VARIABLES
    ws,          \* the shared WebSocket: ready_state, the four callback slots, close() calls
    pc,          \* position of `connect` / its caller
    wake_fn,     \* WebConnection.wake_fn : the closure held by the stored WakeFn, or None
    polls,       \* number of Pending polls so far = identity of the latest waker clone
    woken,       \* wakers notified by waker.wake(), in order
    arc,         \* strong count of Arc<Handlers>
    sink,        \* WebClientSink is alive
    stream,      \* WebClientStream is alive
    queue,       \* items in the unbounded channel (tx -> rx)
    enqueued,    \* every item tx.send ever accepted, in order
    yielded,     \* every item poll_next returned, in order
    lastItem,    \* outcome of the latest poll_next: "none", "item", "pending", "end"
    delivered,   \* payloads of the message events the host fired, in order
    errFired,    \* the host has fired the error event
    closeFired,  \* the host has fired the close event
    calls,       \* closures the host has invoked, in order
    sent,        \* messages handed to WebSocket::send_with_u8_array, in order
    accepted,    \* buffers of the start_send calls that returned Ok, in order
    lastOp       \* latest operation on the WebClientSink and its result

vars == <<ws, pc, wake_fn, polls, woken, arc, sink, stream, queue, enqueued,
          yielded, lastItem, delivered, errFired, closeFired, calls,
          sent, accepted, lastOp>>

sinkVars == <<sent, accepted, lastOp>>

\* ---- values --------------------------------------------------------------
RECURSIVE SeqsUpTo(_, _)
SeqsUpTo(S, n) ==
    IF n = 0 THEN {<<>>}
    ELSE LET shorter == SeqsUpTo(S, n - 1)
         IN  shorter \cup {Append(s, x) : s \in {t \in shorter : Len(t) = n - 1}, x \in S}

\* the ArrayBuffer carried by a binary MessageEvent
Payloads == SeqsUpTo(1..MaxByte, MaxLen)

\* Option<Closure>: None, or one of the closures the module creates
None          == [fn |-> "none",    waker |-> 0]
WakeClosure(n) == [fn |-> "wake",    waker |-> n]
MessageFn     == [fn |-> "message", waker |-> 0]
CloseFn       == [fn |-> "close",   waker |-> 0]

\* Result<Vec<u8>, Error>
Ok(bytes) == [ok |-> TRUE, data |-> bytes]

\* Uint8Array::new(&event.data()).to_vec(): element-wise copy of the buffer
to_vec(buffer) == [i \in 1..Len(buffer) |-> buffer[i]]

\* ---- the WebSocket as this module uses it --------------------------------
set_onopen(w, h)    == [w EXCEPT !.onopen = h]
set_onerror(w, h)   == [w EXCEPT !.onerror = h]
set_onmessage(w, h) == [w EXCEPT !.onmessage = h]
set_onclose(w, h)   == [w EXCEPT !.onclose = h]

\* WebSocket::close(): counted; starts the closing handshake unless already closing/closed
WebSocket_close(w) ==
    [w EXCEPT !.closes = @ + 1,
              !.ready_state = IF @ \in {"CONNECTING", "OPEN"} THEN "CLOSING" ELSE @]

\* ---- WakeFn --------------------------------------------------------------
\* WakeFn::register: effect on the socket (the returned WakeFn holds f)
WakeFn_register(w, f) == set_onerror(set_onopen(w, f), f)

WakeFn_drop_leak(w, f) == w

\* Drop for WakeFn holding Option f
WakeFn_drop(w, f) ==
    IF f # None THEN set_onerror(set_onopen(w, None), None) ELSE w

wake_closure_keep(w) == w

\* the closure built in WebConnection::poll: WakeFn::register(ws, None), whose
\* result is a temporary dropped at once; waker.wake() is done by the caller
wake_closure(w) == WakeFn_drop(WakeFn_register(w, None), None)

\* ---- Handlers ------------------------------------------------------------
Handlers_register(w, m, c) == set_onclose(set_onerror(set_onmessage(w, m), c), c)

Handlers_drop_leak(w, m, c) == WebSocket_close(w)

\* Drop for Handlers holding Options m and c
Handlers_drop(w, m, c) ==
    LET w1 == IF m # None THEN set_onmessage(w, None) ELSE w
        w2 == IF c # None THEN set_onclose(set_onerror(w1, None), None) ELSE w1
    IN  WebSocket_close(w2)

\* close_fn of WebClient::new: Handlers::register(ws, None, None), whose result
\* is a temporary dropped at once
close_fn(w) == Handlers_drop(Handlers_register(w, None, None), None, None)

message_fn_lifo(q, data) == <<Ok(to_vec(data))>> \o q

\* message_fn of WebClient::new: tx.send(Ok(array.to_vec()))
message_fn(q, data) == Append(q, Ok(to_vec(data)))

\* WebClient::new: effect on the socket (Arc<Handlers> holds message_fn and close_fn)
WebClient_new(w) == Handlers_register(w, MessageFn, CloseFn)

\* ---- WebConnection::poll ------------------------------------------------
poll_outcome_closed_pending(state) ==
    CASE state = "OPEN" -> "ok"
      [] state = "CLOSING" -> "ConnectionClosed"
      [] state \in {"CONNECTING", "CLOSED"} -> "pending"

\* the match on ws.ready_state()
poll_outcome(state) ==
    CASE state = "OPEN" -> "ok"
      [] state \in {"CLOSING", "CLOSED"} -> "ConnectionClosed"
      [] state = "CONNECTING" -> "pending"

\* ---- WebConnection::poll, CONNECTING arm ---------------------------------
poll_connecting_keep_first(w, old, f) ==
    IF old = None THEN [ws |-> WakeFn_register(w, f), wake_fn |-> f]
    ELSE [ws |-> w, wake_fn |-> old]

\* registers the new closure, then the assignment to self.wake_fn drops the
\* WakeFn stored by the previous poll
poll_connecting(w, old, f) ==
    [ws |-> WakeFn_drop(WakeFn_register(w, f), old), wake_fn |-> f]

\* ---- UnboundedReceiver::poll_next as used by WebClientStream -------------
rx_poll_next(q, txAlive) ==
    IF q # <<>> THEN "item" ELSE IF txAlive THEN "pending" ELSE "end"

\* a closure can run only while the object that owns it is alive
Alive(h) ==
    CASE h.fn = "wake" -> wake_fn = h
      [] h.fn \in {"message", "close"} -> arc > 0
      [] OTHER -> FALSE

Init ==
    /\ ws = [ready_state |-> "CONNECTING", onopen |-> None, onerror |-> None,
             onmessage |-> None, onclose |-> None, closes |-> 0]
    /\ pc = "connecting"
    /\ wake_fn = None
    /\ polls = 0
    /\ woken = <<>>
    /\ arc = 0
    /\ sink = FALSE
    /\ stream = FALSE
    /\ queue = <<>>
    /\ enqueued = <<>>
    /\ yielded = <<>>
    /\ lastItem = "none"
    /\ delivered = <<>>
    /\ errFired = FALSE
    /\ closeFired = FALSE
    /\ calls = <<>>
    /\ sent = <<>>
    /\ accepted = <<>>
    /\ lastOp = [op |-> "none", result |-> "none"]

\* ---- the executor and the owners -----------------------------------------
\* WebConnection::poll
Poll ==
    /\ UNCHANGED sinkVars
    /\ pc = "connecting"
    /\ CASE poll_outcome(ws.ready_state) = "ok" ->
              /\ ws' = WebClient_new(ws)
              /\ arc' = 1
              /\ pc' = "resolved_ok"
              /\ UNCHANGED <<wake_fn, polls>>
         [] poll_outcome(ws.ready_state) = "ConnectionClosed" ->
              /\ pc' = "resolved_err"
              /\ UNCHANGED <<ws, arc, wake_fn, polls>>
         [] poll_outcome(ws.ready_state) = "pending" ->
              /\ polls < MaxPolls
              /\ LET r == poll_connecting(ws, wake_fn, WakeClosure(polls + 1))
                 IN  ws' = r.ws /\ wake_fn' = r.wake_fn
              /\ polls' = polls + 1
              /\ UNCHANGED <<pc, arc>>
    /\ UNCHANGED <<woken, sink, stream, queue, enqueued, yielded, lastItem,
                   delivered, errFired, closeFired, calls>>

\* connect, after the await returned Ok: the WebConnection is dropped, the sink
\* and the stream each clone the Arc, and `client` goes out of scope
ConnectOk ==
    /\ UNCHANGED sinkVars
    /\ pc = "resolved_ok"
    /\ ws' = WakeFn_drop(ws, wake_fn)
    /\ wake_fn' = None
    /\ arc' = arc + 1 + 1 - 1
    /\ sink' = TRUE
    /\ stream' = TRUE
    /\ pc' = "established"
    /\ UNCHANGED <<polls, woken, queue, enqueued, yielded, lastItem, delivered,
                   errFired, closeFired, calls>>

\* connect, after the await returned Err: `?` returns and drops the WebConnection
ConnectErr ==
    /\ UNCHANGED sinkVars
    /\ pc = "resolved_err"
    /\ ws' = WakeFn_drop(ws, wake_fn)
    /\ wake_fn' = None
    /\ pc' = "failed"
    /\ UNCHANGED <<polls, woken, arc, sink, stream, queue, enqueued, yielded,
                   lastItem, delivered, errFired, closeFired, calls>>

\* the caller drops the `connect` future before it resolved; pc records whether
\* the socket was still CONNECTING at that moment
DropConnection ==
    /\ UNCHANGED sinkVars
    /\ pc = "connecting"
    /\ ws' = WakeFn_drop(ws, wake_fn)
    /\ wake_fn' = None
    /\ pc' = IF ws.ready_state = "CONNECTING" THEN "abandoned" ELSE "dropped"
    /\ UNCHANGED <<polls, woken, arc, sink, stream, queue, enqueued, yielded,
                   lastItem, delivered, errFired, closeFired, calls>>

\* dropping one clone of Arc<Handlers>; the last one runs Drop for Handlers
\* and destroys message_fn, and with it tx
ReleaseHandlers ==
    /\ arc' = arc - 1
    /\ ws' = IF arc = 1 THEN Handlers_drop(ws, MessageFn, CloseFn) ELSE ws

DropSink ==
    /\ UNCHANGED sinkVars
    /\ pc = "established"
    /\ sink
    /\ sink' = FALSE
    /\ ReleaseHandlers
    /\ UNCHANGED <<pc, wake_fn, polls, woken, stream, queue, enqueued, yielded,
                   lastItem, delivered, errFired, closeFired, calls>>

DropStream ==
    /\ UNCHANGED sinkVars
    /\ pc = "established"
    /\ stream
    /\ stream' = FALSE
    /\ ReleaseHandlers
    /\ UNCHANGED <<pc, wake_fn, polls, woken, sink, queue, enqueued, yielded,
                   lastItem, delivered, errFired, closeFired, calls>>

\* Stream::poll_next for WebClientStream
PollNext ==
    /\ UNCHANGED sinkVars
    /\ pc = "established"
    /\ stream
    /\ lastItem' = rx_poll_next(queue, arc > 0)
    /\ IF queue # <<>>
         THEN /\ yielded' = Append(yielded, Head(queue))
              /\ queue' = Tail(queue)
         ELSE UNCHANGED <<yielded, queue>>
    /\ UNCHANGED <<ws, pc, wake_fn, polls, woken, arc, sink, stream, enqueued,
                   delivered, errFired, closeFired, calls>>

\* ---- WebClientSink --------------------------------------------------------
\* the closure of sink.with in connect: only Message::Binary reaches the sink
Binary(data) == [kind |-> "Binary", data |-> data]

binary_data(msg) == msg.data

poll_ready(w) ==
    [result |-> IF w.ready_state = "OPEN" THEN "ok" ELSE "ConnectionClosed", ws |-> w]

start_send_unchecked(w, out, data) ==
    [result |-> "ok", ws |-> w, sent |-> Append(out, to_vec(data))]

start_send_coalesce(w, out, data) ==
    IF w.ready_state = "OPEN"
      THEN [result |-> "ok", ws |-> w,
            sent |-> IF out = <<>> THEN <<to_vec(data)>>
                     ELSE [out EXCEPT ![Len(out)] = @ \o to_vec(data)]]
      ELSE [result |-> "ConnectionClosed", ws |-> w, sent |-> out]

\* one send_with_u8_array(&data[..]) per call, only when OPEN
start_send(w, out, data) ==
    IF w.ready_state = "OPEN"
      THEN [result |-> "ok", ws |-> w, sent |-> Append(out, to_vec(data))]
      ELSE [result |-> "ConnectionClosed", ws |-> w, sent |-> out]

poll_flush_always_ok(w) == [result |-> "ok", ws |-> w]

poll_flush(w) ==
    [result |-> IF w.ready_state = "OPEN" THEN "ok" ELSE "ConnectionClosed", ws |-> w]

poll_close_closes(w) == [result |-> "ok", ws |-> WebSocket_close(w)]

poll_close(w) == [result |-> "ok", ws |-> w]

SinkUsable == pc = "established" /\ sink

NonSinkUnchanged ==
    UNCHANGED <<pc, wake_fn, polls, woken, arc, sink, stream, queue, enqueued,
                yielded, lastItem, delivered, errFired, closeFired, calls>>

PollReady ==
    /\ SinkUsable
    /\ LET r == poll_ready(ws)
       IN  ws' = r.ws /\ lastOp' = [op |-> "poll_ready", result |-> r.result]
    /\ UNCHANGED <<sent, accepted>>
    /\ NonSinkUnchanged

StartSend ==
    /\ SinkUsable
    /\ Len(accepted) < MaxSends
    /\ \E msg \in {Binary(d) : d \in Payloads} :
         LET data == binary_data(msg)
             r == start_send(ws, sent, data)
         IN  /\ ws' = r.ws
             /\ sent' = r.sent
             /\ accepted' = IF r.result = "ok" THEN Append(accepted, data) ELSE accepted
             /\ lastOp' = [op |-> "start_send", result |-> r.result]
    /\ NonSinkUnchanged

PollFlush ==
    /\ SinkUsable
    /\ LET r == poll_flush(ws)
       IN  ws' = r.ws /\ lastOp' = [op |-> "poll_flush", result |-> r.result]
    /\ UNCHANGED <<sent, accepted>>
    /\ NonSinkUnchanged

PollClose ==
    /\ SinkUsable
    /\ LET r == poll_close(ws)
       IN  ws' = r.ws /\ lastOp' = [op |-> "poll_close", result |-> r.result]
    /\ UNCHANGED <<sent, accepted>>
    /\ NonSinkUnchanged

\* ---- the host ------------------------------------------------------------
\* no event is delivered in the middle of the turn that runs `connect` to its end
HostTurn == pc \notin {"resolved_ok", "resolved_err"}

\* the host invokes the closure h installed in a slot of socket w
Dispatch(w, h, data) ==
    /\ calls' = IF h = None THEN calls ELSE Append(calls, h)
    /\ CASE h.fn = "wake" /\ Alive(h) ->
              /\ ws' = wake_closure(w)
              /\ woken' = Append(woken, h.waker)
              /\ UNCHANGED <<queue, enqueued>>
         [] h.fn = "close" /\ Alive(h) ->
              /\ ws' = close_fn(w)
              /\ UNCHANGED <<woken, queue, enqueued>>
         [] h.fn = "message" /\ Alive(h) ->
              /\ ws' = w
              /\ queue' = message_fn(queue, data)
              /\ enqueued' = Append(enqueued, Ok(to_vec(data)))
              /\ UNCHANGED woken
         [] OTHER ->
              /\ ws' = w
              /\ UNCHANGED <<woken, queue, enqueued>>

HostOpen ==
    /\ UNCHANGED sinkVars
    /\ HostTurn
    /\ ws.ready_state = "CONNECTING"
    /\ ~errFired /\ ~closeFired
    /\ Dispatch([ws EXCEPT !.ready_state = "OPEN"], ws.onopen, <<>>)
    /\ UNCHANGED <<pc, wake_fn, polls, arc, sink, stream, yielded, lastItem,
                   delivered, errFired, closeFired>>

HostError ==
    /\ UNCHANGED sinkVars
    /\ HostTurn
    /\ ~errFired /\ ~closeFired
    /\ errFired' = TRUE
    /\ Dispatch([ws EXCEPT !.ready_state = "CLOSED"], ws.onerror, <<>>)
    /\ UNCHANGED <<pc, wake_fn, polls, arc, sink, stream, yielded, lastItem,
                   delivered, closeFired>>

HostClose ==
    /\ UNCHANGED sinkVars
    /\ HostTurn
    /\ ~closeFired
    /\ closeFired' = TRUE
    /\ Dispatch([ws EXCEPT !.ready_state = "CLOSED"], ws.onclose, <<>>)
    /\ UNCHANGED <<pc, wake_fn, polls, arc, sink, stream, yielded, lastItem,
                   delivered, errFired>>

HostMessage ==
    /\ UNCHANGED sinkVars
    /\ HostTurn
    /\ ws.ready_state = "OPEN"
    /\ Len(delivered) < MaxMsgs
    /\ \E data \in Payloads :
         /\ delivered' = Append(delivered, data)
         /\ Dispatch(ws, ws.onmessage, data)
    /\ UNCHANGED <<pc, wake_fn, polls, arc, sink, stream, yielded, lastItem,
                   errFired, closeFired>>

Next ==
    \/ Poll
    \/ ConnectOk
    \/ ConnectErr
    \/ DropConnection
    \/ DropSink
    \/ DropStream
    \/ PollNext
    \/ PollReady
    \/ StartSend
    \/ PollFlush
    \/ PollClose
    \/ HostOpen
    \/ HostError
    \/ HostClose
    \/ HostMessage

Spec == Init /\ [][Next]_vars

\* the read side keeps being polled while it is alive
FairSpec == Spec /\ WF_vars(PollNext)

TypeOK ==
    /\ ws.ready_state \in {"CONNECTING", "OPEN", "CLOSING", "CLOSED"}
    /\ pc \in {"connecting", "resolved_ok", "resolved_err", "established",
               "failed", "abandoned", "dropped"}
    /\ polls \in 0..MaxPolls
    /\ arc \in 0..2
    /\ lastItem \in {"none", "item", "pending", "end"}
    /\ lastOp.op \in {"none", "poll_ready", "start_send", "poll_flush", "poll_close"}
    /\ lastOp.result \in {"none", "ok", "ConnectionClosed"}
    /\ Len(accepted) <= MaxSends

\* ---- helpers of the properties -------------------------------------------
Range(s) == {s[i] : i \in DOMAIN s}

NumFailures(s) == Cardinality({i \in DOMAIN s : ~s[i].ok})

IsPrefix(s, t) == Len(s) <= Len(t) /\ \A i \in DOMAIN s : s[i] = t[i]

Slots == {ws.onopen, ws.onerror, ws.onmessage, ws.onclose}

\* the host fires the opened or the errored event on a socket that is CONNECTING
EstablishmentEvent ==
    /\ ws.ready_state = "CONNECTING"
    /\ \/ ws'.ready_state = "OPEN"
       \/ ~errFired /\ errFired'

\* C1: when the WebConnection has been polled at least once while the socket
\* was CONNECTING and the host then fires opened or errored, the waker of the
\* most recent poll has been notified, however many polls came before.
C1_NoLostWakeup ==
    [][(pc = "connecting" /\ polls >= 1 /\ EstablishmentEvent)
          => polls \in Range(woken')]_vars

\* C2: every notification goes to the waker of the most recent poll; a waker
\* supplied to an earlier poll is never notified once a later poll replaced
\* the registration.
C2_OnlyLatestWaker ==
    [][woken' # woken => woken' = Append(woken, polls)]_vars

C2_Witness ==
    /\ pc = "connecting"
    /\ polls >= 2
    /\ ws.ready_state = "OPEN" \/ errFired

\* C3: close is issued on the socket at most once in every reachable state and
\* exactly once when both halves have been destroyed.
C3_CloseExactlyOnce ==
    /\ ws.closes <= 1
    /\ (pc = "established" /\ ~sink /\ ~stream) => ws.closes = 1

\* C4: while a half is alive no close has been issued, and the step that
\* destroys the second half issues the close.
C4_CloseByLastHalf ==
    /\ []((pc = "established" /\ (sink \/ stream)) => ws.closes = 0)
    /\ [][(arc = 1 /\ arc' = 0) => ws'.closes = ws.closes + 1]_vars

\* C5: after a closed event with no error, a read half that stays alive and is
\* polled eventually reports end of sequence.
C5_EndAfterCleanClose ==
    (pc = "established" /\ stream /\ closeFired /\ ~errFired)
        ~> (lastItem = "end" \/ ~stream)

\* C6: an errored event on an established connection pushes exactly one
\* failure item into the inbound queue.
C6_OneFailureItem ==
    [][(pc = "established" /\ arc > 0 /\ ~errFired /\ errFired')
          => NumFailures(enqueued') = NumFailures(enqueued) + 1]_vars

\* C7: every binary message the host delivers between opened and closed
\* reaches the read side with identical content, none dropped, whatever the
\* interleaving with the polls of the establishment future.
C7_NoMessageDropped ==
    pc = "established"
        => enqueued = [i \in 1..Len(delivered) |-> Ok(delivered[i])]

\* C8: the items the read side has yielded are an in-order prefix of the items
\* the message callback enqueued.
C8_YieldedPrefix == IsPrefix(yielded, enqueued)

C8_Witness ==
    /\ Len(yielded) >= 2
    /\ yielded[1] # yielded[2]
    /\ Len(enqueued) > Len(yielded)

\* C9: once the establishment future was destroyed while the socket was
\* CONNECTING, the opened and errored slots are empty and no later host event
\* invokes a callback or notifies a waker.
C9_AbandonedSilent ==
    /\ [](pc = "abandoned" => (ws.onopen = None /\ ws.onerror = None))
    /\ [][pc = "abandoned" => (calls' = calls /\ woken' = woken)]_vars

C9_Witness ==
    /\ pc = "abandoned"
    /\ polls >= 2
    /\ ws.ready_state = "OPEN"
    /\ delivered # <<>>

\* C10: every non-empty callback slot of the socket holds a closure whose
\* owner (WakeFn or Handlers) is alive.
C10_NoDanglingCallback == \A h \in Slots : h # None => Alive(h)

C10_Witness ==
    /\ ws.onmessage = MessageFn
    /\ ws.onclose = CloseFn
    /\ ~sink
    /\ stream
    /\ polls >= 2

\* a step that polls the WebConnection: it resolves or counts one more Pending
PollStep ==
    /\ pc = "connecting"
    /\ pc' \in {"resolved_ok", "resolved_err"} \/ polls' # polls

\* a step that performs the named operation on the sink
SinkStep(op) == lastOp'.op = op /\ (lastOp' # lastOp \/ sent' # sent)

AllButLastOp ==
    <<ws, pc, wake_fn, polls, woken, arc, sink, stream, queue, enqueued,
      yielded, lastItem, delivered, errFired, closeFired, calls, sent, accepted>>

NoDuplicates(s) == \A i, j \in DOMAIN s : s[i] = s[j] => i = j

\* C11: the outcome of a poll of the WebConnection is fixed by ready_state at
\* that poll: Pending when CONNECTING, success when OPEN, ConnectionClosed
\* when CLOSING or CLOSED.
C11_PollOutcomeByState ==
    [][PollStep =>
         /\ ws.ready_state = "CONNECTING" => (pc' = "connecting" /\ polls' = polls + 1)
         /\ ws.ready_state = "OPEN" => (pc' = "resolved_ok" /\ polls' = polls)
         /\ ws.ready_state \in {"CLOSING", "CLOSED"}
               => (pc' = "resolved_err" /\ polls' = polls)]_vars

C11_Witness ==
    /\ pc = "resolved_err"
    /\ polls >= 1
    /\ ws.ready_state = "CLOSED"

\* C12: start_send on a socket that is not OPEN returns ConnectionClosed in
\* the same step, sends nothing and changes neither the socket, the
\* registrations nor the inbound queue; on an OPEN socket it succeeds.
C12_SendWhenNotOpen ==
    [][SinkStep("start_send") =>
         IF ws.ready_state = "OPEN"
           THEN lastOp'.result = "ok"
           ELSE /\ lastOp'.result = "ConnectionClosed"
                /\ UNCHANGED AllButLastOp]_vars

C12_Witness ==
    /\ lastOp = [op |-> "start_send", result |-> "ConnectionClosed"]
    /\ accepted # <<>>
    /\ queue # <<>>

\* C13 (as claimed): poll_flush returns success in every state of the socket
\* and changes nothing.
C13_FlushAlwaysOk ==
    [][SinkStep("poll_flush") =>
         (lastOp'.result = "ok" /\ UNCHANGED AllButLastOp)]_vars

\* C13 (amended): poll_flush changes nothing in every state of the socket; it
\* returns success when the socket is OPEN and ConnectionClosed otherwise.
C13_FlushOkIffOpen ==
    [][SinkStep("poll_flush") =>
         /\ lastOp'.result = IF ws.ready_state = "OPEN" THEN "ok" ELSE "ConnectionClosed"
         /\ UNCHANGED AllButLastOp]_vars

C13_Witness ==
    /\ lastOp = [op |-> "poll_flush", result |-> "ConnectionClosed"]
    /\ ws.ready_state = "CLOSED"
    /\ sink

\* C14: poll_close returns success in every state of the socket, issues no
\* close and changes neither the socket, the registrations nor the queue.
C14_CloseIsNoOp ==
    [][SinkStep("poll_close") =>
         (lastOp'.result = "ok" /\ UNCHANGED AllButLastOp)]_vars

C14_Witness ==
    /\ lastOp = [op |-> "poll_close", result |-> "ok"]
    /\ ws.ready_state = "OPEN"
    /\ ws.closes = 0
    /\ ws.onmessage = MessageFn

\* C15: on an established connection the first errored or closed event leaves
\* the message, errored and closed slots empty.
C15_FirstEventRetiresAll ==
    [][(pc = "established" /\ ~errFired /\ ~closeFired /\ (errFired' \/ closeFired'))
          => (ws'.onmessage = None /\ ws'.onerror = None /\ ws'.onclose = None)]_vars

\* C16: once the last owner of the socket is gone (both halves, or an
\* establishment future dropped while CONNECTING) a close has been issued.
C16_CloseWhenLastOwnerGone ==
    (pc = "abandoned" \/ (pc = "established" /\ ~sink /\ ~stream))
        => ws.closes >= 1

\* C17: an errored event during a pending establishment wakes it, and the
\* establishment then resolves with a failure without returning to Pending.
C17_ErrorResolvesOnce ==
    [][/\ (pc = "connecting" /\ polls >= 1 /\ ws.ready_state = "CONNECTING"
             /\ ~errFired /\ errFired') => polls \in Range(woken')
       /\ (pc = "connecting" /\ errFired)
             => (polls' = polls /\ pc' # "resolved_ok")]_vars

\* C18: the messages handed to the socket are exactly the buffers of the
\* accepted start_send calls, one message per call, in order.
C18_OneMessagePerSend == sent = accepted

C18_Witness ==
    /\ Len(sent) = 2
    /\ sent[1] # sent[2]

\* C19: the wake closure and close_fn run at most once per registration, and
\* no waker is notified twice.
C19_SingleShotOnce ==
    /\ \A i, j \in DOMAIN calls :
         (calls[i] = calls[j] /\ calls[i].fn # "message") => i = j
    /\ NoDuplicates(woken)

C19_Witness ==
    /\ pc = "established"
    /\ woken = <<1>>
    /\ errFired
    /\ closeFired
    /\ CloseFn \in Range(calls)

\* C20: dropping the WebConnection after it resolved with success leaves
\* message_fn and close_fn installed in the message, errored and closed slots.
C20_DropKeepsRegistrations ==
    [][(pc = "resolved_ok" /\ pc' = "established")
          => (ws'.onmessage = MessageFn /\ ws'.onerror = CloseFn
              /\ ws'.onclose = CloseFn)]_vars
====
